---------------------------- MODULE Spec2Model ----------------------------
(***************************************************************************)
(* A model of SplineLoader (src/src/scripts/splineLoader.js): the keyframe *)
(* spline animation engine.  The loader parses an asset into tracks, keeps *)
(* a playback clock (currentTime, duration, isPlaying, loop, speed) and    *)
(* re-renders every track's position buffer whenever the clock moves.      *)
(*                                                                         *)
(* JavaScript numbers are modelled as exact rationals [n |-> _, d |-> _]   *)
(* in lowest terms with d > 0; the numbers of a position buffer are those  *)
(* rationals rounded to 32-bit floats.  A thrown exception is modelled as  *)
(* an outcome of the operation: the assignments made before the throw      *)
(* stay.                                                                   *)
(***************************************************************************)
EXTENDS Integers, Sequences, FiniteSets, TLC

(***************************************************************************)
(* Numbers                                                                 *)
(***************************************************************************)
Abs(a) == IF a < 0 THEN -a ELSE a

RECURSIVE GCD(_, _)
GCD(a, b) == IF b = 0 THEN a ELSE GCD(b, a % b)

\* the number n/d, d # 0, in lowest terms
Norm(n, d) ==
    LET s == IF d < 0 THEN -1 ELSE 1
        g == GCD(Abs(n), Abs(d))
    IN  [n |-> (s * n) \div g, d |-> (s * d) \div g]

R(i) == [n |-> i, d |-> 1]
Zero == R(0)
One == R(1)

\* sums go over the least common denominator and products cancel crosswise
\* first, to keep the intermediate integers small
RAdd(a, b) ==
    LET g == GCD(a.d, b.d)
    IN  Norm(a.n * (b.d \div g) + b.n * (a.d \div g), a.d * (b.d \div g))
RNeg(a) == [n |-> -a.n, d |-> a.d]
RSub(a, b) == RAdd(a, RNeg(b))
RMul(a, b) ==
    LET g1 == GCD(Abs(a.n), b.d)
        g2 == GCD(Abs(b.n), a.d)
    IN  IF a.n = 0 \/ b.n = 0 THEN [n |-> 0, d |-> 1]
        ELSE [n |-> (a.n \div g1) * (b.n \div g2), d |-> (a.d \div g2) * (b.d \div g1)]
RDiv(a, b) == Norm(a.n * b.d, a.d * b.n)
RLe(a, b) == a.n * b.d <= b.n * a.d
RLt(a, b) == a.n * b.d < b.n * a.d
RGe(a, b) == RLe(b, a)
RMin(a, b) == IF RLe(a, b) THEN a ELSE b
RMax(a, b) == IF RLe(a, b) THEN b ELSE a

\* the integer part of a, rounded toward zero
Trunc(a) == IF a.n >= 0 THEN a.n \div a.d ELSE -((-a.n) \div a.d)

\* the JavaScript remainder a % b, b # 0: the result has the sign of a
RRem(a, b) == RSub(a, RMul(b, R(Trunc(RDiv(a, b)))))

\* THREE.MathUtils.lerp(x, y, t) = (1 - t) * x + t * y
lerp(x, y, t) == RAdd(RMul(RSub(One, t), x), RMul(t, y))


(***************************************************************************)
(* Data.  A field that a JavaScript object may lack is paired with a has-  *)
(* flag; a number that is absent or 0 is falsy either way and is kept as   *)
(* 0.                                                                      *)
(*   Point3       [x, y, z]                                                *)
(*   ControlPoint [knot, inHandle, outHandle] of Point3                    *)
(*   Curve        [splineIndex, hasPoints, points] of ControlPoint         *)
(*   Frame        [frame, hasCurves, curves, hasPoints, points]            *)
(*   SplineData   [name, hasFrames, frames]                                *)
(*   Data         [hasSplines, metadata: [frameRate, closed], splines]     *)
(***************************************************************************)
RECURSIVE Flatten(_)
Flatten(ss) == IF ss = <<>> THEN <<>> ELSE Head(ss) \o Flatten(Tail(ss))

MinInt(a, b) == IF a <= b THEN a ELSE b

\* this.metadata.frameRate || 30
DefaultFrameRate == 30
frameRate(md) == IF md.frameRate = 0 THEN DefaultFrameRate ELSE md.frameRate

\* generateBezierCurve's default number of segments per arc
DefaultSegments == 20

(***************************************************************************)
(* The temporal resolver: the scan of updateSplineGeometry for the frames  *)
(* around targetFrame.  Frames are named by their index; 0 is null.        *)
(***************************************************************************)
\* the scan with prevFrame taken only from frames strictly before targetFrame
RECURSIVE scanFramesStrict(_, _, _, _)
scanFramesStrict(frames, targetFrame, i, prevFrame) ==
    IF i > Len(frames) THEN [prevFrame |-> prevFrame, nextFrame |-> 0]
    ELSE LET frame == frames[i]
             prev == IF RLt(R(frame.frame), targetFrame) THEN i ELSE prevFrame
         IN  IF RGe(R(frame.frame), targetFrame)
             THEN [prevFrame |-> prev, nextFrame |-> i]
             ELSE scanFramesStrict(frames, targetFrame, i + 1, prev)

\* the scan without its break: prevFrame goes on to later frames at or below
\* the target after nextFrame is found
scanFramesNoBreak(frames, targetFrame, i, prevFrame) ==
    LET atOrBefore == { k \in i..Len(frames) : RLe(R(frames[k].frame), targetFrame) }
        atOrAfter == { k \in i..Len(frames) : RGe(R(frames[k].frame), targetFrame) }
    IN  [prevFrame |-> IF atOrBefore = {} THEN prevFrame
                       ELSE CHOOSE k \in atOrBefore : \A j \in atOrBefore : j <= k,
         nextFrame |-> IF atOrAfter = {} THEN 0
                       ELSE CHOOSE k \in atOrAfter : \A j \in atOrAfter : k <= j]

RECURSIVE scanFrames(_, _, _, _)
scanFrames(frames, targetFrame, i, prevFrame) ==
    IF i > Len(frames) THEN [prevFrame |-> prevFrame, nextFrame |-> 0]
    ELSE LET frame == frames[i]
             prev == IF RLe(R(frame.frame), targetFrame) THEN i ELSE prevFrame
         IN  IF RGe(R(frame.frame), targetFrame)
             THEN [prevFrame |-> prev, nextFrame |-> i]
             ELSE scanFrames(frames, targetFrame, i + 1, prev)

\* the bracket after the edge cases; both 0 when there are no frames
keyframes(frames, targetFrame) ==
    LET found == scanFrames(frames, targetFrame, 1, 0)
    IN  IF found.prevFrame = 0 /\ found.nextFrame = 0 THEN found
        ELSE IF found.nextFrame = 0
             THEN [prevFrame |-> found.prevFrame, nextFrame |-> found.prevFrame]
        ELSE IF found.prevFrame = 0
             THEN [prevFrame |-> found.nextFrame, nextFrame |-> found.nextFrame]
        ELSE found

\* the interpolation factor between two distinct frames
factor(prevFrame, nextFrame, targetFrame) ==
    LET frameDiff == nextFrame.frame - prevFrame.frame
    IN  IF frameDiff = 0 THEN Zero
        ELSE RDiv(RSub(targetFrame, R(prevFrame.frame)), R(frameDiff))

(***************************************************************************)
(* The interpolator                                                        *)
(***************************************************************************)
lerp3(p1, p2, t) ==
    [x |-> lerp(p1.x, p2.x, t), y |-> lerp(p1.y, p2.y, t), z |-> lerp(p1.z, p2.z, t)]

interpolatePoints(points1, points2, t) ==
    LET minLength == MinInt(Len(points1), Len(points2))
    IN  [i \in 1..minLength |-> lerp3(points1[i], points2[i], t)]

interpolateControlPoint(p1, p2, t) ==
    [knot |-> lerp3(p1.knot, p2.knot, t),
     inHandle |-> lerp3(p1.inHandle, p2.inHandle, t),
     outHandle |-> lerp3(p1.outHandle, p2.outHandle, t)]

\* one paired segment, or nothing when either side has no points
interpolateCurve(curve1, curve2, i, t) ==
    IF curve1.hasPoints /\ curve2.hasPoints
    THEN LET minPoints == MinInt(Len(curve1.points), Len(curve2.points))
         IN  << [splineIndex |-> IF curve1.splineIndex # 0 THEN curve1.splineIndex
                                 ELSE IF curve2.splineIndex # 0 THEN curve2.splineIndex
                                 ELSE i,
                 hasPoints |-> TRUE,
                 points |-> [j \in 1..minPoints |->
                     interpolateControlPoint(curve1.points[j], curve2.points[j], t)]] >>
    ELSE <<>>

interpolateBezierCurves(curves1, curves2, t) ==
    LET minLength == MinInt(Len(curves1), Len(curves2))
    IN  Flatten([i \in 1..minLength |-> interpolateCurve(curves1[i], curves2[i], i, t)])

(***************************************************************************)
(* The tessellator                                                         *)
(***************************************************************************)
\* THREE's CubicBezier(t, p0, p1, p2, p3) on one coordinate
CubicBezier(t, p0, p1, p2, p3) ==
    LET k == RSub(One, t)
        b0 == RMul(RMul(RMul(k, k), k), p0)
        b1 == RMul(RMul(RMul(RMul(R(3), k), k), t), p1)
        b2 == RMul(RMul(RMul(RMul(R(3), k), t), t), p2)
        b3 == RMul(RMul(RMul(t, t), t), p3)
    IN  RAdd(RAdd(RAdd(b0, b1), b2), b3)

\* getPoints that stops one sample short of the end of the arc
getPointsOpenEnded(v0, v1, v2, v3, segments) ==
    [d \in 1..segments |->
        LET t == Norm(d - 1, segments)
        IN  [x |-> CubicBezier(t, v0.x, v1.x, v2.x, v3.x),
             y |-> CubicBezier(t, v0.y, v1.y, v2.y, v3.y),
             z |-> CubicBezier(t, v0.z, v1.z, v2.z, v3.z)]]

\* CubicBezierCurve3(v0, v1, v2, v3).getPoints(segments): segments + 1 samples
getPoints(v0, v1, v2, v3, segments) ==
    [d \in 1..(segments + 1) |->
        LET t == Norm(d - 1, segments)
        IN  [x |-> CubicBezier(t, v0.x, v1.x, v2.x, v3.x),
             y |-> CubicBezier(t, v0.y, v1.y, v2.y, v3.y),
             z |-> CubicBezier(t, v0.z, v1.z, v2.z, v3.z)]]

generateBezierCurve(bezierPoints, segments) ==
    IF Len(bezierPoints) < 2 THEN <<>>
    ELSE Flatten([i \in 1..(Len(bezierPoints) - 1) |->
                    getPoints(bezierPoints[i].knot, bezierPoints[i].outHandle,
                              bezierPoints[i + 1].inHandle, bezierPoints[i + 1].knot,
                              segments)])
         \o (IF Len(bezierPoints) = 1 THEN << bezierPoints[1].knot >> ELSE <<>>)

\* the x, y, z of each point, in order
flat(points) == Flatten([i \in 1..Len(points) |-> << points[i].x, points[i].y, points[i].z >>])

(***************************************************************************)
(* updateSplineGeometry(spline, time): the outcome is                      *)
(*   "return" the early return, the geometry is not touched,               *)
(*   "throw"  a TypeError raised before the geometry is touched,           *)
(*   "set"    the position attribute is replaced by positions.             *)
(***************************************************************************)
\* interpolatedData: the array chosen or built from the bracket, by what its
\* elements are; "undefined" when the frame has neither field
interpolatedData(prevFrame, nextFrame, same, targetFrame) ==
    IF same
    THEN IF prevFrame.hasCurves THEN [kind |-> "curves", items |-> prevFrame.curves]
         ELSE IF prevFrame.hasPoints THEN [kind |-> "points", items |-> prevFrame.points]
         ELSE [kind |-> "undefined", items |-> <<>>]
    ELSE LET t == factor(prevFrame, nextFrame, targetFrame)
         IN  IF prevFrame.hasCurves /\ nextFrame.hasCurves
             THEN [kind |-> "curves",
                   items |-> interpolateBezierCurves(prevFrame.curves, nextFrame.curves, t)]
             ELSE IF prevFrame.hasPoints /\ nextFrame.hasPoints
             THEN [kind |-> "points",
                   items |-> interpolatePoints(prevFrame.points, nextFrame.points, t)]
             ELSE [kind |-> "throw", items |-> <<>>]

\* the positions array built from interpolatedData: only elements that carry
\* a points array (curve segments) contribute; the second branch of the
\* source repeats the first condition and is never taken
positionsOf(data, closed) ==
    LET positions ==
            IF data.kind = "curves"
            THEN Flatten([c \in 1..Len(data.items) |->
                    IF data.items[c].hasPoints
                    THEN flat(generateBezierCurve(data.items[c].points, DefaultSegments))
                    ELSE <<>>])
            ELSE <<>>
    IN  IF closed /\ Len(positions) > 0
        THEN positions \o << positions[1], positions[2], positions[3] >>
        ELSE positions

\* the significand of a / d > 0 as a 32-bit float: q = floor(a * p / d) and
\* r = a * p - q * d for p the power of 2 that brings q to 24 bits, or the
\* first p for which the division is exact
RECURSIVE significand(_, _, _, _)
significand(q, r, d, p) ==
    IF r = 0 \/ q >= 2^23 THEN [q |-> q, r |-> r, p |-> p]
    ELSE significand(2 * q + (IF 2 * r >= d THEN 1 ELSE 0),
                     IF 2 * r >= d THEN 2 * r - d ELSE 2 * r, d, 2 * p)

\* Math.fround(x): the 32-bit float nearest to x, ties to the even
\* significand; for the sizes the coordinates take, below 2^24 and, unless
\* they are binary fractions, from 2^-7
fround(x) ==
    IF x.n = 0 THEN Zero
    ELSE IF GCD(x.d, 2^30) = x.d /\ Abs(x.n) < 2^24 THEN x
    ELSE LET s == significand(Abs(x.n) \div x.d, Abs(x.n) % x.d, x.d, 1)
             up == 2 * s.r > x.d \/ (2 * s.r = x.d /\ s.q % 2 = 1)
             m == IF up THEN s.q + 1 ELSE s.q
         IN  Norm(IF x.n < 0 THEN -m ELSE m, s.p)

\* new THREE.Float32BufferAttribute(positions, 3): a Float32Array of the
\* numbers of positions
Float32BufferAttribute(positions) ==
    [k \in 1..Len(positions) |-> fround(positions[k])]

\* updateSplineGeometry that writes an empty buffer when there are no frames
updateSplineGeometryClears(spline, time, md) ==
    LET targetFrame == RMul(time, R(frameRate(md)))
        found == keyframes(spline.frames, targetFrame)
    IN  IF found.prevFrame = 0 /\ found.nextFrame = 0
        THEN [kind |-> "set", positions |-> <<>>]
        ELSE LET data == interpolatedData(spline.frames[found.prevFrame],
                                          spline.frames[found.nextFrame],
                                          found.prevFrame = found.nextFrame,
                                          targetFrame)
             IN  IF data.kind = "throw" THEN [kind |-> "throw", positions |-> <<>>]
                 ELSE [kind |-> "set",
                       positions |-> Float32BufferAttribute(positionsOf(data, spline.closed))]

updateSplineGeometry(spline, time, md) ==
    LET targetFrame == RMul(time, R(frameRate(md)))
        found == keyframes(spline.frames, targetFrame)
    IN  IF found.prevFrame = 0 /\ found.nextFrame = 0
        THEN [kind |-> "return", positions |-> <<>>]
        ELSE LET data == interpolatedData(spline.frames[found.prevFrame],
                                          spline.frames[found.nextFrame],
                                          found.prevFrame = found.nextFrame,
                                          targetFrame)
             IN  IF data.kind = "throw" THEN [kind |-> "throw", positions |-> <<>>]
                 ELSE [kind |-> "set",
                       positions |-> Float32BufferAttribute(positionsOf(data, spline.closed))]

(***************************************************************************)
(* The assets the loader is given                                          *)
(***************************************************************************)
Pt(x, y, z) == [x |-> R(x), y |-> R(y), z |-> R(z)]
Ctl(knot, inHandle, outHandle) == [knot |-> knot, inHandle |-> inHandle, outHandle |-> outHandle]
Seg(index, points) == [splineIndex |-> index, hasPoints |-> TRUE, points |-> points]
CurveFrame(n, curves) ==
    [frame |-> n, hasCurves |-> TRUE, curves |-> curves, hasPoints |-> FALSE, points |-> <<>>]
PointFrame(n, points) ==
    [frame |-> n, hasCurves |-> FALSE, curves |-> <<>>, hasPoints |-> TRUE, points |-> points]
BareFrame(n) ==
    [frame |-> n, hasCurves |-> FALSE, curves |-> <<>>, hasPoints |-> FALSE, points |-> <<>>]
Entry(name, frames) == [name |-> name, hasFrames |-> TRUE, frames |-> frames]
NoFrames(name) == [name |-> name, hasFrames |-> FALSE, frames |-> <<>>]

\* one arc from (a, 0, 0) to (b, 2, 0)
Arc(a, b) == Seg(0, << Ctl(Pt(a, 0, 0), Pt(a, 0, 0), Pt(a + 1, 0, 0)),
                       Ctl(Pt(b, 2, 0), Pt(b - 1, 2, 0), Pt(b, 2, 0)) >>)
\* a segment of a single control point
Dot(a) == Seg(1, << Ctl(Pt(a, 1, 0), Pt(a, 1, 0), Pt(a, 1, 0)) >>)
\* a segment of three control points: two arcs, (a, 0, 1) to (a + 2, 2, 1)
\* to (a + 4, 0, 1)
Bend(a) == Seg(2, << Ctl(Pt(a, 0, 1), Pt(a, 0, 1), Pt(a + 1, 0, 1)),
                     Ctl(Pt(a + 2, 2, 1), Pt(a + 1, 2, 1), Pt(a + 3, 2, 1)),
                     Ctl(Pt(a + 4, 0, 1), Pt(a + 4, 1, 1), Pt(a + 4, 0, 1)) >>)

Assets == <<
    \* 1: no metadata, so 30 fps and open tracks; frames 0 and 300: duration
    \*    10; a second track starts late, with a repeated frame number; the
    \*    frames of a third are out of order
    [hasSplines |-> TRUE, metadata |-> [frameRate |-> 0, closed |-> FALSE],
     splines |-> << Entry("path", << CurveFrame(0, << Arc(0, 4) >>),
                                     CurveFrame(300, << Arc(10, 20) >>) >>),
                    Entry("late", << CurveFrame(30, << Arc(1, 2) >>),
                                     CurveFrame(30, << Arc(3, 4) >>),
                                     CurveFrame(90, << Arc(5, 6) >>) >>),
                    Entry("mixed", << CurveFrame(60, << Arc(1, 3) >>),
                                      CurveFrame(0, << Arc(2, 4) >>),
                                      CurveFrame(120, << Arc(3, 5) >>) >>) >>],
    \* 2: closed tracks at 30 fps, duration 5: a ring, a track with no frames,
    \*    and a shorter track with a repeated frame number
    [hasSplines |-> TRUE, metadata |-> [frameRate |-> 30, closed |-> TRUE],
     splines |-> << Entry("ring", << CurveFrame(0, << Arc(0, 2) >>),
                                     CurveFrame(150, << Arc(5, 7), Dot(3) >>) >>),
                    Entry("empty", <<>>),
                    Entry("short", << CurveFrame(0, << Arc(0, 1) >>),
                                      CurveFrame(60, << Arc(2, 3) >>),
                                      CurveFrame(60, << Arc(4, 5) >>),
                                      CurveFrame(90, << Arc(6, 7) >>) >>) >>],
    \* 3: 1 fps, duration 10: the second frame of the first track carries
    \*    neither curves nor points
    [hasSplines |-> TRUE, metadata |-> [frameRate |-> 1, closed |-> FALSE],
     splines |-> << Entry("broken", << CurveFrame(0, << Arc(0, 4) >>), BareFrame(10) >>),
                    Entry("sound", << CurveFrame(0, << Arc(0, 4) >>),
                                      CurveFrame(10, << Arc(10, 20) >>) >>) >>],
    \* 4: a single frame at 0: duration 0
    [hasSplines |-> TRUE, metadata |-> [frameRate |-> 30, closed |-> TRUE],
     splines |-> << Entry("still", << CurveFrame(0, << Arc(1, 2) >>) >>) >>],
    \* 5: the second entry has no frames field
    [hasSplines |-> TRUE, metadata |-> [frameRate |-> 30, closed |-> FALSE],
     splines |-> << Entry("first", << CurveFrame(0, << Arc(0, 4) >>),
                                      CurveFrame(30, << Arc(1, 5) >>) >>),
                    NoFrames("second") >>],
    \* 6: no splines field
    [hasSplines |-> FALSE, metadata |-> [frameRate |-> 24, closed |-> FALSE],
     splines |-> <<>>],
    \* 7: closed tracks at 1 fps, duration 4: a track of raw points, a track
    \*    of one segment of a single control point, and a track of two
    \*    segments, of three and of two control points
    [hasSplines |-> TRUE, metadata |-> [frameRate |-> 1, closed |-> TRUE],
     splines |-> << Entry("dots", << PointFrame(0, << Pt(0, 0, 0), Pt(2, 0, 0), Pt(2, 2, 0) >>),
                                     PointFrame(4, << Pt(4, 0, 0), Pt(6, 4, 0) >>) >>),
                    Entry("knot", << CurveFrame(0, << Dot(3) >>) >>),
                    Entry("chain", << CurveFrame(0, << Bend(0), Arc(0, 4) >>),
                                      CurveFrame(4, << Bend(4), Arc(4, 8) >>) >>) >>]
>>

(***************************************************************************)
(* The renders of the assets' tracks on a grid of times, computed once.    *)
(* render(spline, time, md) is updateSplineGeometry(spline, time, md),     *)
(* read from the table when it is there.                                   *)
(***************************************************************************)
\* the grid spans this many seconds each side of 0, in halves of a second
GridSpan == 12
TimeGrid == { Norm(k, 2) : k \in (-2 * GridSpan)..(2 * GridSpan) }

track(frames, closed) == [frames |-> frames, closed |-> closed]
mdOf(a) == [defined |-> TRUE, frameRate |-> Assets[a].metadata.frameRate,
            closed |-> Assets[a].metadata.closed]

RenderKeys ==
    UNION { UNION { { << Assets[a].splines[i].frames, mdOf(a), time >> : time \in TimeGrid } :
                    i \in 1..Len(Assets[a].splines) } :
            a \in 1..Len(Assets) }

rendered ==
    [key \in RenderKeys |-> updateSplineGeometry(track(key[1], key[2].closed), key[3], key[2])]

render(spline, time, md) ==
    IF << spline.frames, md, time >> \in RenderKeys
    THEN rendered[<< spline.frames, md, time >>]
    ELSE updateSplineGeometry(spline, time, md)

(***************************************************************************)
(* The loader                                                              *)
(***************************************************************************)
VARIABLES
    splines,      \* the track list: [name, frames, closed, geometry]
    metadata,     \* [defined, frameRate, closed]; not defined before a parse
    currentTime,
    duration,
    isPlaying,
    loop,
    speed,
    pending,      \* the load() calls in flight: [response, data], how many
                  \* await fetch(url) and how many await response.json()
    loads,        \* how many times load or parseSplineData was called so far
    phase,        \* "new", then "parsed" or "failed" as the last parseSplineData ended
    last          \* the last call or continuation: [op, arg, threw, wasPlaying]

vars == << splines, metadata, currentTime, duration, isPlaying, loop, speed, pending,
           loads, phase, last >>

\* a new THREE.BufferGeometry() has no position attribute
BufferGeometry == [hasPosition |-> FALSE, position |-> <<>>]

\* geometry.setAttribute('position', new Float32BufferAttribute(positions, 3)):
\* the buffer holds the numbers of positions as 32-bit floats
setAttribute(positions) ==
    [hasPosition |-> TRUE, position |-> Float32BufferAttribute(positions)]

\* the outcome of updateSplineGeometry on every track at one time
outcomes(tracks, time, md) ==
    [i \in 1..Len(tracks) |-> render(tracks[i], time, md)]

\* the first track whose update throws, 0 if none does
firstThrow(out) ==
    IF \E i \in 1..Len(out) : out[i].kind = "throw"
    THEN CHOOSE i \in 1..Len(out) :
            /\ out[i].kind = "throw"
            /\ \A j \in 1..(i - 1) : out[j].kind # "throw"
    ELSE 0

\* the tracks after the outcomes up to the first throw took effect
applied(tracks, out) ==
    LET thrown == firstThrow(out)
    IN  [threw |-> thrown # 0,
         splines |-> [i \in 1..Len(tracks) |->
            IF (thrown = 0 \/ i < thrown) /\ out[i].kind = "set"
            THEN [tracks[i] EXCEPT !.geometry = setAttribute(out[i].positions)]
            ELSE tracks[i]]]

\* updateSplines(): forEach in track order, stopped by the first throw
updateSplines(tracks, time, md) == applied(tracks, outcomes(tracks, time, md))

Call(op, arg, threw) == [op |-> op, arg |-> arg, threw |-> threw, wasPlaying |-> isPlaying]

(***************************************************************************)
(* parseSplineData(data)                                                   *)
(***************************************************************************)
RECURSIVE maxFrameOf(_, _)
maxFrameOf(frames, maxFrame) ==
    IF frames = <<>> THEN maxFrame
    ELSE maxFrameOf(Tail(frames),
                    IF Head(frames).frame > maxFrame THEN Head(frames).frame ELSE maxFrame)

\* the spline object built for one entry, before its first render
newSpline(entry, md) ==
    [name |-> entry.name, frames |-> entry.frames,
     closed |-> md.closed, geometry |-> BufferGeometry]

\* the spline after its first render
created(spline, out) ==
    IF out.kind = "set" THEN [spline EXCEPT !.geometry = setAttribute(out.positions)]
    ELSE spline

\* the index of the first entry that makes the loop throw (it has no frames,
\* or its first render throws), 0 if none does
firstBad(entries, out) ==
    IF \E k \in 1..Len(entries) : ~entries[k].hasFrames \/ out[k].kind = "throw"
    THEN CHOOSE k \in 1..Len(entries) :
            /\ ~entries[k].hasFrames \/ out[k].kind = "throw"
            /\ \A j \in 1..(k - 1) : entries[j].hasFrames /\ out[j].kind # "throw"
    ELSE 0

\* data.splines.forEach: the splines pushed and the maximum frame number,
\* out being each entry's first render.  An entry without frames, or whose
\* first render throws, ends the loop with the splines pushed before it.
parsed(entries, md, out) ==
    LET bad == firstBad(entries, out)
        n == IF bad = 0 THEN Len(entries) ELSE bad - 1
    IN  [threw |-> bad # 0,
         splines |-> [k \in 1..n |-> created(newSpline(entries[k], md), out[k])],
         maxFrame |-> maxFrameOf(Flatten([k \in 1..n |-> entries[k].frames]), 0)]

parseSplines(entries, md) ==
    parsed(entries, md,
           [k \in 1..Len(entries) |-> render(newSpline(entries[k], md), Zero, md)])

\* the loader's fields when the loop over data.splines ended as result
parseResult(result, md) ==
    [threw |-> result.threw,
     metadata |-> md,
     splines |-> result.splines,
     duration |-> IF result.threw THEN duration ELSE Norm(result.maxFrame, frameRate(md))]

\* the loader's fields when parseSplineData(data) returns or throws
parseSplineData(data) ==
    parseResult(IF data.hasSplines
                THEN parseSplines(data.splines, [defined |-> TRUE,
                                                 frameRate |-> data.metadata.frameRate,
                                                 closed |-> data.metadata.closed])
                ELSE [threw |-> TRUE, splines |-> <<>>, maxFrame |-> 0],
                [defined |-> TRUE, frameRate |-> data.metadata.frameRate,
                 closed |-> data.metadata.closed])

\* the arguments the caller passes
DeltaTimes == { R(-1), R(7) }
Times == { R(-1), R(2), R(12) }
Progresses == { R(-1), Norm(1, 2), R(2) }
Speeds == { R(1), R(2) }

\* the times updateSplineGeometry is called at from outside
DirectTimes == { R(5) }

\* update is not followed below this many seconds before the start
MaxBehind == 2

\* load and parseSplineData are called no more than this many times in all
MaxLoads == 1

(***************************************************************************)
(* The operations                                                          *)
(***************************************************************************)
Init ==
    /\ splines = <<>>
    /\ metadata = [defined |-> FALSE, frameRate |-> 0, closed |-> FALSE]
    /\ currentTime = Zero
    /\ duration = Zero
    /\ isPlaying = FALSE
    /\ loop = TRUE
    /\ speed = One
    /\ pending = [response |-> 0, data |-> 0]
    /\ loads = 0
    /\ phase = "new"
    /\ last = [op |-> "constructor", arg |-> Zero, threw |-> FALSE, wasPlaying |-> FALSE]

\* the loader's fields once parseSplineData(data) ended as r
Loaded(r, a) ==
    /\ metadata' = r.metadata
    /\ splines' = r.splines
    /\ duration' = r.duration
    /\ phase' = IF r.threw THEN "failed" ELSE "parsed"
    /\ last' = Call("parseSplineData", R(a), r.threw)

\* parseSplineData(data), called by load or from outside: it replaces the
\* metadata, the tracks and the duration, and leaves the clock as it is
ParseSplineData(a) ==
    /\ loads < MaxLoads
    /\ loads' = loads + 1
    /\ Loaded(parseSplineData(Assets[a]), a)
    /\ UNCHANGED << currentTime, isPlaying, loop, speed, pending >>

\* load(url) up to its first await: the fetch is started
Load ==
    /\ loads < MaxLoads
    /\ loads' = loads + 1
    /\ pending' = [pending EXCEPT !.response = @ + 1]
    /\ last' = Call("load", Zero, FALSE)
    /\ UNCHANGED << splines, metadata, currentTime, duration, isPlaying, loop, speed, phase >>

\* load(url) when fetch(url) settles: response.json() is started, or the
\* error of the fetch is rethrown
Response(ok) ==
    /\ pending.response > 0
    /\ pending' = [response |-> pending.response - 1,
                   data |-> pending.data + (IF ok THEN 1 ELSE 0)]
    /\ last' = Call("response", Zero, ~ok)
    /\ UNCHANGED << splines, metadata, currentTime, duration, isPlaying, loop, speed, loads,
                    phase >>

\* load(url) when response.json() settles: the data goes to parseSplineData,
\* whose error is rethrown, or the error of the decoding is rethrown
Data(a, ok) ==
    /\ pending.data > 0
    /\ pending' = [pending EXCEPT !.data = @ - 1]
    /\ IF ok
       THEN Loaded(parseSplineData(Assets[a]), a)
       ELSE /\ last' = Call("data", Zero, TRUE)
            /\ UNCHANGED << splines, metadata, duration, phase >>
    /\ UNCHANGED << currentTime, isPlaying, loop, speed, loads >>

\* dispose(): the track list is emptied; the clock and the metadata stay
Dispose ==
    /\ splines' = <<>>
    /\ last' = Call("dispose", Zero, FALSE)
    /\ UNCHANGED << metadata, currentTime, duration, isPlaying, loop, speed, pending, loads, phase >>

\* the tracks and the call's record once updateSplines ended as r
Rendered(r, op, arg) ==
    /\ splines' = r.splines
    /\ last' = Call(op, arg, r.threw)

Play ==
    /\ isPlaying' = TRUE
    /\ last' = Call("play", Zero, FALSE)
    /\ UNCHANGED << splines, metadata, currentTime, duration, loop, speed, pending, loads, phase >>

Pause ==
    /\ isPlaying' = FALSE
    /\ last' = Call("pause", Zero, FALSE)
    /\ UNCHANGED << splines, metadata, currentTime, duration, loop, speed, pending, loads, phase >>

Stop ==
    /\ isPlaying' = FALSE
    /\ currentTime' = Zero
    /\ Rendered(updateSplines(splines, Zero, metadata), "stop", Zero)
    /\ UNCHANGED << metadata, duration, loop, speed, pending, loads, phase >>

\* advance with the wrap done by one subtraction of duration
advanceSubtractOnce(deltaTime) ==
    LET advanced == RAdd(currentTime, RMul(deltaTime, speed))
    IN  IF loop
        THEN [currentTime |-> IF RGe(advanced, duration) THEN RSub(advanced, duration)
                              ELSE advanced,
              isPlaying |-> TRUE]
        ELSE [currentTime |-> RMin(advanced, duration),
              isPlaying |-> ~RGe(RMin(advanced, duration), duration)]

\* advance that stops only once currentTime is past duration, after the clamp
advanceStopsPast(deltaTime) ==
    LET advanced == RAdd(currentTime, RMul(deltaTime, speed))
    IN  IF loop
        THEN [currentTime |-> RRem(advanced, duration), isPlaying |-> TRUE]
        ELSE [currentTime |-> RMin(advanced, duration),
              isPlaying |-> ~RLt(duration, RMin(advanced, duration))]

\* currentTime after update's advance, and whether playback goes on
advance(deltaTime) ==
    LET advanced == RAdd(currentTime, RMul(deltaTime, speed))
    IN  IF loop
        THEN [currentTime |-> RRem(advanced, duration), isPlaying |-> TRUE]
        ELSE [currentTime |-> RMin(advanced, duration),
              isPlaying |-> ~RGe(RMin(advanced, duration), duration)]

\* update without the isPlaying test of its first line
UpdateWhilePaused(deltaTime) ==
    /\ RGe(currentTime, R(-MaxBehind))
    /\ IF duration = Zero
       THEN /\ last' = Call("update", deltaTime, FALSE)
            /\ UNCHANGED << splines, currentTime, isPlaying >>
       ELSE /\ currentTime' = advance(deltaTime).currentTime
            /\ isPlaying' = advance(deltaTime).isPlaying
            /\ Rendered(updateSplines(splines, advance(deltaTime).currentTime, metadata),
                        "update", deltaTime)
    /\ UNCHANGED << metadata, duration, loop, speed, pending, loads, phase >>

Update(deltaTime) ==
    /\ RGe(currentTime, R(-MaxBehind))
    /\ IF ~isPlaying \/ duration = Zero
       THEN /\ last' = Call("update", deltaTime, FALSE)
            /\ UNCHANGED << splines, currentTime, isPlaying >>
       ELSE /\ currentTime' = advance(deltaTime).currentTime
            /\ isPlaying' = advance(deltaTime).isPlaying
            /\ Rendered(updateSplines(splines, advance(deltaTime).currentTime, metadata),
                        "update", deltaTime)
    /\ UNCHANGED << metadata, duration, loop, speed, pending, loads, phase >>

\* Math.max(0, Math.min(time, this.duration))
clampTime(time) == RMax(Zero, RMin(time, duration))

\* setTime(time): the new currentTime and what updateSplines did
setTime(time) ==
    [currentTime |-> clampTime(time),
     rendered |-> updateSplines(splines, clampTime(time), metadata)]

\* Math.max(0, Math.min(1, progress))
clampedProgress(progress) == RMax(Zero, RMin(One, progress))

\* setProgress that writes progress * duration itself, with no clamp
setProgressUnclamped(progress) ==
    [currentTime |-> RMul(progress, duration),
     rendered |-> updateSplines(splines, RMul(progress, duration), metadata)]

\* setProgress(progress): the clamped progress goes through setTime
setProgress(progress) == setTime(RMul(clampedProgress(progress), duration))

Returned(r, op, arg) ==
    /\ currentTime' = r.currentTime
    /\ Rendered(r.rendered, op, arg)
    /\ UNCHANGED << metadata, duration, isPlaying, loop, speed, pending, loads, phase >>

SetTime(time) ==
    Returned(setTime(time), "setTime", time)

SetProgress(progress) ==
    Returned(setProgress(progress), "setProgress", progress)

\* loop and speed are public fields the caller assigns
SetLoop(b) ==
    /\ loop' = b
    /\ last' = Call("loop", Zero, FALSE)
    /\ UNCHANGED << splines, metadata, currentTime, duration, isPlaying, speed, pending, loads, phase >>

SetSpeed(s) ==
    /\ speed' = s
    /\ last' = Call("speed", Zero, FALSE)
    /\ UNCHANGED << splines, metadata, currentTime, duration, isPlaying, loop, pending, loads, phase >>

\* updateSplines() called from outside: every track at the current time
UpdateSplines ==
    /\ Rendered(updateSplines(splines, currentTime, metadata), "updateSplines", Zero)
    /\ UNCHANGED << metadata, currentTime, duration, isPlaying, loop, speed, pending, loads, phase >>

\* track i once its updateSplineGeometry ended as out
Drawn(i, out, time) ==
    /\ splines' = IF out.kind = "set"
                  THEN [splines EXCEPT ![i].geometry = setAttribute(out.positions)]
                  ELSE splines
    /\ last' = Call("updateSplineGeometry", time, out.kind = "throw")

\* updateSplineGeometry(spline, time) called from outside on track i
UpdateSplineGeometry(i, time) ==
    /\ Drawn(i, render(splines[i], time, metadata), time)
    /\ UNCHANGED << metadata, currentTime, duration, isPlaying, loop, speed, pending, loads, phase >>

Next ==
    \/ Load
    \/ \E ok \in BOOLEAN : Response(ok)
    \/ \E a \in 1..Len(Assets), ok \in BOOLEAN : Data(a, ok)
    \/ \E a \in 1..Len(Assets) : ParseSplineData(a)
    \/ Dispose
    \/ UpdateSplines
    \/ \E i \in 1..Len(splines), time \in DirectTimes : UpdateSplineGeometry(i, time)
    \/ Play
    \/ Pause
    \/ Stop
    \/ \E deltaTime \in DeltaTimes : Update(deltaTime)
    \/ \E time \in Times : SetTime(time)
    \/ \E progress \in Progresses : SetProgress(progress)
    \/ \E b \in BOOLEAN : SetLoop(b)
    \/ \E s \in Speeds : SetSpeed(s)

Spec == Init /\ [][Next]_vars

(***************************************************************************)
(* Properties                                                              *)
(***************************************************************************)
RenderOps == { "update", "setTime", "setProgress", "stop" }

\* the last call was an update that got past its first line
Advanced == last.op = "update" /\ last.wasPlaying /\ duration # Zero

\* some track holds a buffer with positions in it
SomePositions ==
    \E i \in 1..Len(splines) : Len(splines[i].geometry.position) > 0

\* the calls of the playback controller
ControlOps == { "play", "pause", "stop", "update", "setTime", "setProgress" }

\* C1: after a successful parse, whatever calls of the playback controller
\* follow and whatever their arguments, 0 <= currentTime <= duration when
\* the call has returned: no such call takes currentTime out of that range.
C1_TimeWithinDuration ==
    [][ (/\ phase = "parsed" /\ last'.op \in ControlOps
         /\ RLe(Zero, currentTime) /\ RLe(currentTime, duration))
        => RLe(Zero, currentTime') /\ RLe(currentTime', duration') ]_vars

\* r is the remainder of a by d > 0: a - r is a whole multiple of d, r is
\* smaller than d in size and is not on the other side of 0 from a
IsRemainder(r, a, d) ==
    /\ RDiv(RSub(a, r), d).d = 1
    /\ RLt(r, d) /\ RLt(RNeg(d), r)
    /\ RLe(Zero, a) => RLe(Zero, r)
    /\ RLe(a, Zero) => RLe(r, Zero)

\* C2: a playing, looping update with duration > 0 leaves currentTime at
\* (currentTime + deltaTime * speed) modulo duration, however large the
\* step, and leaves the controller playing; with duration 10 and speed 1,
\* update(7) from time 7 gives 4.
C2_LoopWraps ==
    [][ (last'.op = "update" /\ isPlaying /\ loop /\ RLt(Zero, duration))
        => /\ isPlaying'
           /\ IsRemainder(currentTime', RAdd(currentTime, RMul(last'.arg, speed)), duration)
           /\ (duration = R(10) /\ speed = One /\ currentTime = R(7) /\ last'.arg = R(7))
              => currentTime' = R(4) ]_vars

\* two update(7) of a looping 10-second animation at speed 1 ended at 4
C2_Witness ==
    /\ phase = "parsed" /\ duration = R(10) /\ speed = One /\ loop
    /\ Advanced /\ last.arg = R(7) /\ isPlaying
    /\ currentTime = R(4)
    /\ SomePositions

\* C3: a playing, non-looping update with duration > 0 leaves currentTime at
\* min(currentTime + deltaTime * speed, duration) and stops playing exactly
\* when that sum reaches or passes duration.
C3_NonLoopClamps ==
    [][ (last'.op = "update" /\ isPlaying /\ ~loop /\ RLt(Zero, duration))
        => LET advanced == RAdd(currentTime, RMul(last'.arg, speed))
           IN  /\ currentTime' = (IF RLe(advanced, duration) THEN advanced ELSE duration)
               /\ isPlaying' = RLt(advanced, duration) ]_vars

\* update(7) of a non-looping 5-second animation ended at 5, stopped
C3_Witness ==
    /\ phase = "parsed" /\ duration = R(5) /\ ~loop
    /\ Advanced /\ last.arg = R(7)
    /\ currentTime = R(5) /\ ~isPlaying

\* C4: update changes nothing when the controller is not playing or the
\* duration is 0: currentTime, isPlaying and every track's buffer stay.
C4_UpdateNoOp ==
    [][ (last'.op = "update" /\ (~isPlaying \/ duration = Zero))
        => /\ currentTime' = currentTime
           /\ isPlaying' = isPlaying
           /\ splines' = splines ]_vars

\* an update arrived while paused part-way through, with buffers in place
C4_Witness ==
    /\ phase = "parsed" /\ RLt(Zero, duration)
    /\ last.op = "update" /\ ~last.wasPlaying /\ ~isPlaying
    /\ RLt(Zero, currentTime) /\ RLt(currentTime, duration)
    /\ SomePositions

\* the render of track i at the current time
renderNow(i) == render(splines[i], currentTime, metadata)

\* no track up to j throws when rendered at the current time
ReachedNow(j) == \A k \in 1..j : renderNow(k).kind # "throw"

\* C5: setTime(t) leaves every track's buffer equal to the track's render at
\* clamp(t, 0, duration), whatever the play state and whatever came before,
\* and leaves isPlaying as it was.
C5_SetTimeRenders ==
    (phase = "parsed" /\ last.op = "setTime")
    => /\ isPlaying = last.wasPlaying
       /\ currentTime = RMax(Zero, RMin(last.arg, duration))
       /\ \A i \in 1..Len(splines) :
            renderNow(i).kind = "set"
            => splines[i].geometry = setAttribute(renderNow(i).positions)

\* C6: from any state, setProgress(p) with p < 0 ends in the state that
\* setProgress(0) ends in, and with p > 1 in the state that setProgress(1)
\* ends in, where currentTime is duration (isPlaying is not written by
\* either).
C6_ProgressClamped ==
    /\ \A p \in Progresses :
        /\ RLt(p, Zero) => setProgress(p) = setProgress(Zero)
        /\ RLt(One, p) => setProgress(p) = setProgress(One)
    /\ setProgress(One).currentTime = duration
    /\ setProgress(Zero).currentTime = Zero
    /\ (last.op = "setProgress" /\ RLt(One, last.arg)) => currentTime = duration
    /\ (last.op = "setProgress" /\ RLt(last.arg, Zero)) => currentTime = Zero
    /\ last.op = "setProgress" => isPlaying = last.wasPlaying

\* setProgress(2) left a playing animation at its end, still playing
C6_Witness ==
    /\ phase = "parsed" /\ RLt(Zero, duration)
    /\ last.op = "setProgress" /\ last.arg = R(2)
    /\ currentTime = duration /\ isPlaying
    /\ SomePositions

\* C7: after a successful parse, update, setTime, setProgress and stop never
\* throw, whatever the frames around the time carry.
C7_NoThrow ==
    (phase = "parsed" /\ last.op \in RenderOps) => ~last.threw

\* C8: when parseSplineData throws, the track list, the metadata and the
\* duration are what they were before the call.
C8_NoPartialState ==
    [][ (last'.op = "parseSplineData" /\ last'.threw)
        => /\ splines' = splines
           /\ metadata' = metadata
           /\ duration' = duration ]_vars

\* C9: a track with no frames never has its buffer written, by the first
\* render during the parse or by any later one, and it does not stop the
\* call: after update, setTime, setProgress or stop, every other track the
\* call reached (none before it threw) holds its render at the current time.
C9_EmptyTrackUntouched ==
    phase = "parsed"
    => \A i \in 1..Len(splines) :
        splines[i].frames = <<>>
        => /\ splines[i].geometry = BufferGeometry
           /\ renderNow(i).kind = "return"
           /\ (last.op \in { "setTime", "setProgress", "stop" } \/ Advanced)
              => \A j \in 1..Len(splines) :
                    (splines[j].frames # <<>> /\ ReachedNow(j))
                    => splines[j].geometry = setAttribute(renderNow(j).positions)

\* setTime moved a track that follows a track with no frames
C9_Witness ==
    /\ phase = "parsed" /\ last.op = "setTime" /\ RLt(Zero, currentTime)
    /\ \E i \in 1..Len(splines) :
        /\ splines[i].frames = <<>>
        /\ ~splines[i].geometry.hasPosition
        /\ \E j \in (i + 1)..Len(splines) :
            /\ Len(splines[j].geometry.position) > 0
            /\ splines[j].geometry # setAttribute(render(splines[j], Zero, metadata).positions)

\* frames is in non-decreasing frame-number order
Sorted(frames) ==
    \A i, j \in 1..Len(frames) : i <= j => frames[i].frame <= frames[j].frame

\* the targets tried on a track: the current one, and each frame number with
\* the points half a frame and one frame to either side of it
Targets(frames) ==
    { RMul(currentTime, R(frameRate(metadata))) }
    \cup UNION { { R(frames[k].frame - 1), Norm(2 * frames[k].frame - 1, 2),
                   R(frames[k].frame),
                   Norm(2 * frames[k].frame + 1, 2), R(frames[k].frame + 1) } :
                 k \in 1..Len(frames) }

Least(S) == CHOOSE x \in S : \A y \in S : x <= y
Greatest(S) == CHOOSE x \in S : \A y \in S : y <= x

\* what a frame carries: its curves, else its points, else nothing
OwnContent(frame) ==
    IF frame.hasCurves THEN frame.curves
    ELSE IF frame.hasPoints THEN frame.points
    ELSE <<>>

\* the bracket the claim describes, on sorted non-empty frames
BracketOf(frames, found, targetFrame) ==
    LET n == Len(frames)
        atOrAfter == { k \in 1..n : RGe(R(frames[k].frame), targetFrame) }
        upTo == { k \in 1..Least(atOrAfter) : RLe(R(frames[k].frame), targetFrame) }
    IN  /\ atOrAfter = {} => found = [prevFrame |-> n, nextFrame |-> n]
        /\ atOrAfter # {}
           => /\ found.nextFrame = Least(atOrAfter)
              /\ found.prevFrame = (IF upTo = {} THEN Least(atOrAfter) ELSE Greatest(upTo))
        /\ (\A k \in 1..n : RLt(targetFrame, R(frames[k].frame)))
           => found = [prevFrame |-> 1, nextFrame |-> 1]
        /\ (\E k \in 1..n : R(frames[k].frame) = targetFrame)
           => /\ found.prevFrame = found.nextFrame
              /\ R(frames[found.nextFrame].frame) = targetFrame
              /\ interpolatedData(frames[found.prevFrame], frames[found.nextFrame],
                                  found.prevFrame = found.nextFrame, targetFrame).items
                 = OwnContent(frames[found.nextFrame])

\* C10: on a non-empty track in non-decreasing frame order, nextFrame is the
\* first frame at or after targetFrame and prevFrame the last frame at or
\* before it among those scanned; below every frame both are the first
\* frame, above every frame both the last; on a stored frame number both are
\* that frame, and what goes on to tessellation is its own content.
C10_Bracket ==
    \A i \in 1..Len(splines) :
        (splines[i].frames # <<>> /\ Sorted(splines[i].frames))
        => \A targetFrame \in Targets(splines[i].frames) :
              BracketOf(splines[i].frames, keyframes(splines[i].frames, targetFrame),
                        targetFrame)

\* a render at a time that falls on a repeated frame number, past the first
\* frame of the track: both ends are the first of the repeated frames
C10_Witness ==
    /\ phase = "parsed" /\ last.op \in RenderOps /\ ~last.threw
    /\ \E i \in 1..Len(splines) : \E k \in 2..(Len(splines[i].frames) - 1) :
        /\ Sorted(splines[i].frames)
        /\ splines[i].frames[k].frame = splines[i].frames[k + 1].frame
        /\ splines[i].frames[k - 1].frame < splines[i].frames[k].frame
        /\ R(splines[i].frames[k].frame) = RMul(currentTime, R(frameRate(metadata)))
        /\ keyframes(splines[i].frames, RMul(currentTime, R(frameRate(metadata))))
           = [prevFrame |-> k, nextFrame |-> k]
        /\ Len(splines[i].geometry.position) > 0

\* the bracket of a track at a target, and whether the interpolator is
\* invoked on it: two distinct frames were found
Interpolates(frames, targetFrame) ==
    LET found == keyframes(frames, targetFrame)
    IN  found.prevFrame # 0 /\ found.prevFrame # found.nextFrame

\* C11: whenever prevFrame and nextFrame are distinct frames, their frame
\* numbers differ, prevFrame.frame < targetFrame <= nextFrame.frame, and the
\* factor t = (targetFrame - prev) / (next - prev) is in [0, 1]; on every
\* track, at the current time and at the targets around each frame number.
C11_FactorInRange ==
    \A i \in 1..Len(splines) :
        \A targetFrame \in Targets(splines[i].frames) :
            Interpolates(splines[i].frames, targetFrame)
            => LET found == keyframes(splines[i].frames, targetFrame)
                   prevFrame == splines[i].frames[found.prevFrame]
                   nextFrame == splines[i].frames[found.nextFrame]
                   t == factor(prevFrame, nextFrame, targetFrame)
               IN  /\ prevFrame.frame # nextFrame.frame
                   /\ RLt(R(prevFrame.frame), targetFrame)
                   /\ RLe(targetFrame, R(nextFrame.frame))
                   /\ t = RDiv(RSub(targetFrame, R(prevFrame.frame)),
                               R(nextFrame.frame - prevFrame.frame))
                   /\ RLe(Zero, t) /\ RLe(t, One)

\* a render between two distinct frames, on a track that also repeats a
\* frame number
C11_Witness ==
    /\ phase = "parsed" /\ last.op \in RenderOps /\ ~last.threw
    /\ \E i \in 1..Len(splines) :
        /\ Interpolates(splines[i].frames, RMul(currentTime, R(frameRate(metadata))))
        /\ \E k \in 1..(Len(splines[i].frames) - 1) :
              splines[i].frames[k].frame = splines[i].frames[k + 1].frame
        /\ Len(splines[i].geometry.position) > 0

\* the current target frame
targetNow == RMul(currentTime, R(frameRate(metadata)))

\* the tracks hold their render at the current time: the last call rendered
\* them all, and it returned
RenderedNow ==
    /\ phase = "parsed" /\ ~last.threw
    /\ last.op \in { "setTime", "setProgress", "stop", "updateSplines" } \/ Advanced

\* a list of points as a position buffer: x, y, z of each in order, and the
\* first point once more when the track is closed
Buffer(points, closed) ==
    setAttribute(flat(points) \o (IF closed /\ Len(points) > 0
                                  THEN << points[1].x, points[1].y, points[1].z >>
                                  ELSE <<>>))

\* C12: a track whose bracketing frames carry raw points and no curves holds
\* those points in its buffer: the frame's own points when the bracket is one
\* frame, else their point-wise interpolation over the shorter of the two
\* lists, as x, y, z triples in order, with the closing duplicate when the
\* track is closed.
C12_PointsPassThrough ==
    RenderedNow
    => \A i \in 1..Len(splines) :
        LET frames == splines[i].frames
            found == keyframes(frames, targetNow)
        IN  (/\ frames # <<>>
             /\ \A k \in { found.prevFrame, found.nextFrame } :
                    frames[k].hasPoints /\ ~frames[k].hasCurves)
            => LET prevFrame == frames[found.prevFrame]
                   nextFrame == frames[found.nextFrame]
                   points == IF found.prevFrame = found.nextFrame
                             THEN prevFrame.points
                             ELSE interpolatePoints(prevFrame.points, nextFrame.points,
                                                    factor(prevFrame, nextFrame, targetNow))
               IN  splines[i].geometry = Buffer(points, splines[i].closed)

\* C13: a segment of exactly one control point tessellates to one position,
\* the control point's knot, so a track whose current frame is one such
\* segment holds a buffer of that one position, and of two when the track is
\* closed.
C13_SingleControlPoint ==
    RenderedNow
    => \A i \in 1..Len(splines) :
        LET frames == splines[i].frames
            found == keyframes(frames, targetNow)
        IN  (/\ frames # <<>>
             /\ found.prevFrame = found.nextFrame
             /\ frames[found.nextFrame].hasCurves
             /\ Len(frames[found.nextFrame].curves) = 1
             /\ frames[found.nextFrame].curves[1].hasPoints
             /\ Len(frames[found.nextFrame].curves[1].points) = 1)
            => LET bezierPoints == frames[found.nextFrame].curves[1].points
               IN  /\ generateBezierCurve(bezierPoints, DefaultSegments)
                      = << bezierPoints[1].knot >>
                   /\ splines[i].geometry
                      = Buffer(<< bezierPoints[1].knot >>, splines[i].closed)

\* the synthetic frame of track i at the current time
syntheticNow(i) ==
    LET frames == splines[i].frames
        found == keyframes(frames, targetNow)
    IN  interpolatedData(frames[found.prevFrame], frames[found.nextFrame],
                         found.prevFrame = found.nextFrame, targetNow)

\* the samples of the segments before segment s at a resolution
RECURSIVE SamplesBefore(_, _, _)
SamplesBefore(curves, s, resolution) ==
    IF s = 1 THEN 0
    ELSE SamplesBefore(curves, s - 1, resolution)
         + (Len(curves[s - 1].points) - 1) * (resolution + 1)

\* position k of a buffer, and a point as a position
PositionAt(position, k) == << position[3 * k - 2], position[3 * k - 1], position[3 * k] >>
AsPosition(point) == << point.x, point.y, point.z >>

\* C14: on a synthetic frame whose segments all have n >= 2 control points,
\* each segment contributes (n - 1) * (resolution + 1) positions, in segment
\* order then control-point order then sample order (each arc runs from its
\* control point's knot to the next one's, as 32-bit floats); a closed track
\* with a non-empty buffer holds exactly one more position, equal to the
\* first, and an open track none.
C14_PositionCount ==
    RenderedNow
    => \A i \in 1..Len(splines) :
        (/\ splines[i].frames # <<>>
         /\ ReachedNow(i)
         /\ syntheticNow(i).kind = "curves"
         /\ \A s \in 1..Len(syntheticNow(i).items) :
               syntheticNow(i).items[s].hasPoints
               /\ Len(syntheticNow(i).items[s].points) >= 2)
        => LET curves == syntheticNow(i).items
               resolution == DefaultSegments
               position == splines[i].geometry.position
               samples == SamplesBefore(curves, Len(curves) + 1, resolution)
               closing == IF splines[i].closed /\ samples > 0 THEN 1 ELSE 0
           IN  /\ splines[i].geometry.hasPosition
               /\ Len(position) = 3 * (samples + closing)
               /\ \A s \in 1..Len(curves) : \A a \in 1..(Len(curves[s].points) - 1) :
                    LET first == SamplesBefore(curves, s, resolution)
                                 + (a - 1) * (resolution + 1) + 1
                    IN  /\ PositionAt(position, first)
                           = Float32BufferAttribute(AsPosition(curves[s].points[a].knot))
                        /\ PositionAt(position, first + resolution)
                           = Float32BufferAttribute(AsPosition(curves[s].points[a + 1].knot))
               /\ closing = 1
                  => PositionAt(position, samples + 1) = PositionAt(position, 1)

\* a closed track rendered between two frames of two segments, of three and
\* of two control points: 2 * 21 + 21 positions and the closing one
C14_Witness ==
    /\ RenderedNow /\ last.op \in RenderOps
    /\ \E i \in 1..Len(splines) :
        /\ splines[i].closed
        /\ Interpolates(splines[i].frames, targetNow)
        /\ syntheticNow(i).kind = "curves"
        /\ Len(syntheticNow(i).items) = 2
        /\ Len(syntheticNow(i).items[1].points) = 3
        /\ Len(syntheticNow(i).items[2].points) = 2
        /\ Len(splines[i].geometry.position) = 3 * (2 * 21 + 21 + 1)

=============================================================================
